---- MODULE Spec2Model ----
(***************************************************************************)
(* Model of single-utilities' pathway network construction:                *)
(*   utils::validate_net          (src/src/utils/mod.rs)                    *)
(*   types::PathwayNetwork        (src/src/types/mod.rs)                    *)
(* One behaviour is one call PathwayNetwork::new_from_vec(sources,         *)
(* targets, weights, features, tmin), which runs validate_net, filters,    *)
(* flattens, and is followed by accessor calls on the built network.       *)
(* f32 weights are only copied by the code, never computed with; they are  *)
(* modelled as integers (1 stands for 1f32).  usize indices are 0-based as *)
(* in the source; TLA+ sequences are 1-based, so v[i] in Rust is v[i + 1]. *)
(***************************************************************************)
EXTENDS Integers, Sequences, FiniteSets, TLC

\* ---------------------------------------------------------------- bounds
\* MaxLen: the longest source, target and weight vectors drawn.
\* MaxTmin: the largest min-group-size (tmin) drawn.
MaxLen == 3
MaxTmin == 2

\* Source keys (the empty string is a String like any other), target keys.
SrcKeys == {"", "a", "b"}
TgtKeys == {"x", "y"}

\* Position-tagged weights 2, 5, 8, ...: the code only copies weights, so a
\* distinct value per position shows which position a surviving weight
\* came from.
WeightPool(n) == [j \in 1..n |-> 3 * j - 1]

SeqsUpTo(S, n) == UNION {[1..m -> S] : m \in 0..n}

\* The feature vocabularies drawn: every list of target keys, repeats
\* included, no longer than the number of distinct target keys.
Vocabularies == SeqsUpTo(TgtKeys, Cardinality(TgtKeys))

None == [some |-> FALSE, we |-> <<>>]
Some(w) == [some |-> TRUE, we |-> w]
WeightArgs == {None} \cup {Some(WeightPool(n)) : n \in 0..MaxLen}

NoRes == [tag |-> "none", map |-> <<>>, err |-> ""]
Ok(m) == [tag |-> "Ok", map |-> m, err |-> ""]
Err(e) == [tag |-> "Err", map |-> <<>>, err |-> e]

NoRet == [op |-> "none", idx |-> 0, val |-> [ok |-> FALSE, val |-> <<>>]]

VARIABLES
    source, target, weights,      \* arguments of new_from_vec / validate_net
    features, tmin,               \* arguments of new_from_vec
    pc,                           \* position in the call
    i, map, current_src, current_target_weight,   \* validate_net locals
    flushes,                      \* history: every map.insert of validate_net
    res,                          \* validate_net's return value
    filtered, pending, name_to_id, cursor,        \* new_from_vec locals
    names, starts, offsets, cnct, weights_vec,    \* the five vectors
    err,                          \* the panic that ended the call, if any
    ret                           \* the last accessor call and its result

vars == <<source, target, weights, features, tmin, pc, i, map, current_src,
          current_target_weight, flushes, res, filtered, pending, name_to_id, cursor,
          names, starts, offsets, cnct, weights_vec, err, ret>>

args == <<source, target, weights>>
vnLocals == <<i, map, current_src, current_target_weight, flushes>>
nfLocals == <<filtered, pending, name_to_id, cursor>>
netVecs == <<names, starts, offsets, cnct, weights_vec>>

\* ------------------------------------------------------------ helpers
EmptyMap == <<>>

\* HashMap::insert: the value under an existing key is replaced.
MapInsert(m, k, v) ==
    [x \in DOMAIN m \cup {k} |-> IF x = k THEN v ELSE m[x]]

\* current_target_weight.iter().map(..).collect(): a Vec holding every entry
\* of the HashMap once, in the HashMap's (unspecified) iteration order.
Collect(ctw) ==
    LET n == Cardinality(DOMAIN ctw)
        orders == {p \in [1..n -> DOMAIN ctw] :
                      \A a, b \in 1..n : a # b => p[a] # p[b]}
    IN {[j \in 1..n |-> <<p[j], ctw[p[j]]>>] : p \in orders}

\* utils/mod.rs:34, 54: one map.insert(current_src, data), made when upto
\* triples had been read.
Flushed(k, data, upto) == [key |-> k, data |-> data, upto |-> upto]

\* Mutant of LengthMismatch: only a longer source is rejected.
LengthMismatch_OnlyLonger(src, tgt) == Len(src) > Len(tgt)

\* utils/mod.rs:10-12
LengthMismatch(src, tgt) == Len(src) # Len(tgt)

\* utils/mod.rs:22-25: the empty string marks "no current source yet".
AdoptSrc(cur, src) == IF cur = "" THEN src ELSE cur

\* utils/mod.rs:42-45: None when we[i] is out of bounds (the index panics).
WeightAt(w, idx) ==
    IF ~w.some THEN [ok |-> TRUE, v |-> 1]
    ELSE IF idx < Len(w.we) THEN [ok |-> TRUE, v |-> w.we[idx + 1]]
    ELSE [ok |-> FALSE, v |-> 0]

\* ------------------------------------------------------------------ Init
Init ==
    /\ source \in SeqsUpTo(SrcKeys, MaxLen)
    /\ target \in SeqsUpTo(TgtKeys, MaxLen)
    /\ weights \in WeightArgs
    /\ features = <<>>
    /\ tmin = 0
    /\ pc = "entry"
    /\ i = 0
    /\ map = EmptyMap
    /\ current_src = ""
    /\ current_target_weight = EmptyMap
    /\ flushes = <<>>
    /\ res = NoRes
    /\ filtered = EmptyMap
    /\ pending = {}
    /\ name_to_id = EmptyMap
    /\ cursor = 0
    /\ names = <<>>
    /\ starts = <<>>
    /\ offsets = <<>>
    /\ cnct = <<>>
    /\ weights_vec = <<>>
    /\ err = ""
    /\ ret = NoRet

\* --------------------------------------------------------- validate_net
\* utils/mod.rs:10-20: the length check, then the locals.
CheckLengths ==
    /\ pc = "entry"
    /\ IF LengthMismatch(source, target)
       THEN /\ res' = Err("LengthMismatch")
            /\ pc' = "validated"
       ELSE /\ res' = res
            /\ pc' = "loop"
    /\ UNCHANGED <<args, features, tmin, vnLocals, nfLocals, netVecs, err, ret>>

\* utils/mod.rs:21-47: one iteration of the loop over source.
LoopStep ==
    /\ pc = "loop"
    /\ i < Len(source)
    /\ LET src == source[i + 1]
           cur1 == AdoptSrc(current_src, src)
           flush == cur1 # src /\ DOMAIN current_target_weight # {}
           w == WeightAt(weights, i)
       IN \E data \in Collect(current_target_weight) :
            LET map1 == IF flush THEN MapInsert(map, cur1, data) ELSE map
                ctw1 == IF flush THEN EmptyMap ELSE current_target_weight
                cur2 == IF flush THEN src ELSE cur1
            IN /\ map' = map1
               /\ flushes' = IF flush
                             THEN Append(flushes, Flushed(cur1, data, i))
                             ELSE flushes
               /\ current_src' = cur2
               /\ IF w.ok
                  THEN /\ current_target_weight' =
                              MapInsert(ctw1, target[i + 1], w.v)
                       /\ i' = i + 1
                       /\ pc' = "loop"
                       /\ err' = err
                  ELSE /\ current_target_weight' = ctw1
                       /\ i' = i
                       /\ pc' = "panicked"
                       /\ err' = "IndexOutOfBounds"
    /\ UNCHANGED <<args, features, tmin, res, nfLocals, netVecs, ret>>

\* utils/mod.rs:49-57: the flush after the loop, and the return.
FinalFlush ==
    /\ pc = "loop"
    /\ i = Len(source)
    /\ \E data \in Collect(current_target_weight) :
         LET map1 == IF DOMAIN current_target_weight # {}
                     THEN MapInsert(map, current_src, data) ELSE map
         IN /\ map' = map1
            /\ flushes' = IF DOMAIN current_target_weight # {}
                          THEN Append(flushes, Flushed(current_src, data, i))
                          ELSE flushes
            /\ res' = Ok(map1)
    /\ pc' = "validated"
    /\ UNCHANGED <<args, features, tmin, i, current_src, current_target_weight,
                   nfLocals, netVecs, err, ret>>

\* --------------------------------------------------------- new_from_vec
\* Mutant of Retained: a strict comparison.
Retained_Strict(v, tm) == Len(v) > tm

\* types/mod.rs:119: the min-group-size test of the filter.
Retained(v, tm) == Len(v) >= tm

\* types/mod.rs:117-120
Filter(m, tm) ==
    [k \in {x \in DOMAIN m : Retained(m[x], tm)} |-> m[k]]

\* types/mod.rs:122-126: collecting (name, idx) pairs into a HashMap keeps,
\* for a name listed twice, the pair inserted last.
NameToId(f) ==
    [n \in {f[j] : j \in DOMAIN f} |->
        (CHOOSE j \in DOMAIN f :
            f[j] = n /\ \A l \in DOMAIN f : f[l] = n => l <= j) - 1]

\* Mutant of Resolve: a name the lookup does not hold is skipped
\* (filter_map in place of unwrap).
Resolve_Skipping(v, n2i) ==
    LET known == {j \in DOMAIN v : v[j][1] \in DOMAIN n2i}
        nth(m) == CHOOSE j \in known : Cardinality({l \in known : l < j}) = m - 1
    IN [ok |-> TRUE,
        cn |-> [m \in 1..Cardinality(known) |-> n2i[v[nth(m)][1]]]]

\* types/mod.rs:142-146, the target side: every member's index, or the
\* panic of unwrap() on a name the lookup does not hold.
Resolve(v, n2i) ==
    IF \A j \in DOMAIN v : v[j][1] \in DOMAIN n2i
    THEN [ok |-> TRUE, cn |-> [j \in DOMAIN v |-> n2i[v[j][1]]]]
    ELSE [ok |-> FALSE, cn |-> <<>>]

\* types/mod.rs:145
GroupWeights(v) == [j \in DOMAIN v |-> v[j][2]]

\* Mutant of PushedStart: the start is pushed after the cursor has moved.
PushedStart_AfterAdvance(cur, len) == cur + len

\* Mutant of PushedOffset: the end offset is pushed in place of the length.
PushedOffset_End(cur, len) == cur + len

\* types/mod.rs:149, 150, 151
PushedStart(cur, len) == cur
PushedOffset(cur, len) == len
Advance(cur, len) == cur + len

\* types/mod.rs:115-137: unwrap of validate_net's result, the filter, the
\* lookup.  features and tmin are first read here, so they are drawn here.
Prepare ==
    /\ pc = "validated"
    /\ IF res.tag = "Err"
       THEN /\ pc' = "panicked"
            /\ err' = res.err
            /\ UNCHANGED <<features, tmin, nfLocals>>
       ELSE /\ features' \in Vocabularies
            /\ tmin' \in 0..MaxTmin
            /\ filtered' = Filter(res.map, tmin')
            /\ pending' = DOMAIN filtered'
            /\ name_to_id' = NameToId(features')
            /\ cursor' = 0
            /\ pc' = "flatten"
            /\ err' = err
    /\ UNCHANGED <<args, vnLocals, res, netVecs, ret>>

\* types/mod.rs:139-152: one iteration of the loop over filtered, taken in
\* the HashMap's (unspecified) order.
FlattenStep ==
    /\ pc = "flatten"
    /\ \E k \in pending :
         LET v == filtered[k]
             len == Len(v)
             r == Resolve(v, name_to_id)
         IN IF r.ok
            THEN /\ cnct' = cnct \o r.cn
                 /\ weights_vec' = weights_vec \o GroupWeights(v)
                 /\ names' = Append(names, k)
                 /\ starts' = Append(starts, PushedStart(cursor, len))
                 /\ offsets' = Append(offsets, PushedOffset(cursor, len))
                 /\ cursor' = Advance(cursor, len)
                 /\ pending' = pending \ {k}
                 /\ pc' = "flatten"
                 /\ err' = err
            ELSE /\ pc' = "panicked"
                 /\ err' = "UnresolvedTarget"
                 /\ UNCHANGED <<netVecs, cursor, pending>>
    /\ UNCHANGED <<args, features, tmin, vnLocals, res, filtered, name_to_id, ret>>

\* types/mod.rs:154-160: the network is returned.
Build ==
    /\ pc = "flatten"
    /\ pending = {}
    /\ pc' = "built"
    /\ UNCHANGED <<args, features, tmin, vnLocals, res, nfLocals, netVecs, err, ret>>

\* ------------------------------------------------------------ accessors
Panic == [ok |-> FALSE, val |-> <<>>]
Val(v) == [ok |-> TRUE, val |-> v]

\* &v[srt..off]: panics when srt > off or off > v.len().
Slice(v, srt, off) ==
    IF srt <= off /\ off <= Len(v) THEN Val(SubSeq(v, srt + 1, off)) ELSE Panic

\* types/mod.rs:163-165
get_pathway_name(idx) ==
    IF idx < Len(names) THEN Val(names[idx + 1]) ELSE Panic

\* types/mod.rs:167-171
get_pathway_features(idx) ==
    IF idx < Len(starts) /\ idx < Len(offsets)
    THEN Slice(cnct, starts[idx + 1], starts[idx + 1] + offsets[idx + 1])
    ELSE Panic

\* Mutant of get_pathway_features_and_weights: the end of the slice is the
\* group's length, not start + length.
get_pathway_features_and_weights_NoStart(idx) ==
    IF idx < Len(starts) /\ idx < Len(offsets)
    THEN LET srt == starts[idx + 1]
             off == offsets[idx + 1]
             c == Slice(cnct, srt, off)
             w == Slice(weights_vec, srt, off)
         IN IF c.ok /\ w.ok THEN Val(<<c.val, w.val>>) ELSE Panic
    ELSE Panic

\* types/mod.rs:173-177
get_pathway_features_and_weights(idx) ==
    IF idx < Len(starts) /\ idx < Len(offsets)
    THEN LET srt == starts[idx + 1]
             off == srt + offsets[idx + 1]
             c == Slice(cnct, srt, off)
             w == Slice(weights_vec, srt, off)
         IN IF c.ok /\ w.ok THEN Val(<<c.val, w.val>>) ELSE Panic
    ELSE Panic

\* types/mod.rs:179-181
get_num_pathways == Len(names)

Call(op, idx, r) ==
    /\ pc = "built"
    /\ ret' = [op |-> op, idx |-> idx, val |-> r]
    /\ UNCHANGED <<args, features, tmin, pc, vnLocals, res, nfLocals, netVecs, err>>

CallName == \E idx \in 0..Len(names) : Call("name", idx, get_pathway_name(idx))
CallFeatures ==
    \E idx \in 0..Len(names) : Call("features", idx, get_pathway_features(idx))
CallFeaturesAndWeights ==
    \E idx \in 0..Len(names) :
        Call("features_and_weights", idx, get_pathway_features_and_weights(idx))
CallNum == Call("num", 0, Val(get_num_pathways))

Next ==
    \/ CheckLengths
    \/ LoopStep
    \/ FinalFlush
    \/ Prepare
    \/ FlattenStep
    \/ Build
    \/ CallName
    \/ CallFeatures
    \/ CallFeaturesAndWeights
    \/ CallNum

Spec == Init /\ [][Next]_vars

\* ============================================================== claims
\* Vocabulary of the claims, defined on the arguments of the call.
N == Len(source)
Pos == 1..N
WeightsFit == ~weights.some \/ Len(weights.we) = N
SameLength == Len(source) = Len(target)

\* The weight the caller gave position j (1 when weights is absent).
GivenWeight(j) == IF weights.some THEN weights.we[j] ELSE 1

\* Equal source keys are contiguous.
Contiguous ==
    \A a, b, c \in Pos : (a < b /\ b < c /\ source[a] = source[c])
                            => source[b] = source[a]

\* The maximal runs <<s, e>> of equal source keys.
Runs ==
    {r \in Pos \X Pos :
        /\ r[1] <= r[2]
        /\ \A j \in r[1]..r[2] : source[j] = source[r[1]]
        /\ r[1] = 1 \/ source[r[1] - 1] # source[r[1]]
        /\ r[2] = N \/ source[r[2] + 1] # source[r[1]]}
RunsOf(k) == {r \in Runs : source[r[1]] = k}
LastRunOf(k) == CHOOSE r \in RunsOf(k) : \A q \in RunsOf(k) : q[2] <= r[2]

\* Positions of target t within run r, and the last of them.
Occ(r, t) == {j \in r[1]..r[2] : target[j] = t}
LastOcc(r, t) == CHOOSE j \in Occ(r, t) : \A l \in Occ(r, t) : l <= j

\* The (target, weight) pairs of run r after last-write-wins deduplication.
DedupPairs(r) ==
    {<<t, GivenWeight(LastOcc(r, t))>> : t \in {target[j] : j \in r[1]..r[2]}}

AsSet(v) == {v[j] : j \in DOMAIN v}
TargetsOf(v) == {v[j][1] : j \in DOMAIN v}
EachOnce(v) == \A a, b \in DOMAIN v : a # b => v[a][1] # v[b][1]
Times(v, t) == Cardinality({j \in DOMAIN v : v[j][1] = t})

RECURSIVE SumSeq(_)
SumSeq(q) == IF q = <<>> THEN 0 ELSE Head(q) + SumSeq(Tail(q))

RECURSIVE SumOver(_, _)
SumOver(S, m) ==
    IF S = {} THEN 0
    ELSE LET k == CHOOSE x \in S : TRUE
         IN Cardinality(TargetsOf(m[k])) + SumOver(S \ {k}, m)

\* validate_net has returned Ok(map); the call has ended in a network.
Grouped == res.tag = "Ok"
Built == pc = "built"
Ended == pc \in {"validated", "flatten", "built", "panicked"}

\* Keys of the grouped map whose deduplicated member count meets tmin.
Kept == {k \in DOMAIN res.map : Cardinality(TargetsOf(res.map[k])) >= tmin}
Vocab == {features[j] : j \in DOMAIN features}

\* C1: with weights present and weights.len() # N (sources and targets of
\* equal length N), validate_net ends in a LengthMismatch error before any
\* triple is processed: no triple read, no map entry, whether weights is
\* shorter or longer than N.
C1_WeightLengthRejected ==
    (Ended /\ SameLength /\ weights.some /\ Len(weights.we) # N)
        => /\ res = Err("LengthMismatch")
           /\ i = 0
           /\ flushes = <<>>
           /\ DOMAIN map = {}

\* C2 (as stated): whenever a target name of the input is absent from the
\* vocabulary, no network is returned, whatever sources, weights and tmin.
C2_AnyMissingTargetFails ==
    Built => \A j \in DOMAIN target : target[j] \in Vocab

\* A member of a group that passed the filter is absent from the vocabulary.
KeptUnresolvable ==
    \E k \in Kept : \E t \in TargetsOf(res.map[k]) : t \notin Vocab

\* C2 (amended): once a grouped map exists and a member of a group that
\* meets tmin is absent from the vocabulary, the call cannot return a
\* network: it ends in the UnresolvedTarget panic, and only then.
C2_KeptMissingTargetFails ==
    /\ (Grouped /\ pc \in {"flatten", "built", "panicked"} /\ KeptUnresolvable)
          => /\ ~Built
             /\ pc = "flatten" => pending # {}
             /\ pc = "panicked" => err = "UnresolvedTarget"
    /\ (Grouped /\ pc = "panicked")
          => (err = "UnresolvedTarget" /\ KeptUnresolvable)

\* C2 witness: a call that panicked on a kept group's target "y" while a
\* smaller group was filtered away.
C2_Witness ==
    /\ pc = "panicked"
    /\ err = "UnresolvedTarget"
    /\ "y" \notin Vocab
    /\ \E k \in Kept : "y" \in TargetsOf(res.map[k])
    /\ Kept # DOMAIN res.map

\* C3: for source-contiguous input of matching lengths, validate_net returns
\* a map whose keys are exactly the distinct source keys, each value holding
\* exactly the distinct targets paired with that key, each once, none empty.
C3_KeysAndTargetsExact ==
    (pc = "validated" /\ SameLength /\ WeightsFit /\ Contiguous)
        => /\ Grouped
           /\ DOMAIN res.map = {source[j] : j \in Pos}
           /\ \A k \in DOMAIN res.map :
                /\ TargetsOf(res.map[k]) = {target[j] : j \in {l \in Pos : source[l] = k}}
                /\ EachOnce(res.map[k])
                /\ Len(res.map[k]) > 0

\* The first map.insert made after run r was read in full: the group that
\* received the run's entries.
FlushAfter(r) ==
    LET later == {f \in DOMAIN flushes : flushes[f].upto >= r[2]}
    IN IF later = {} THEN {}
       ELSE {flushes[CHOOSE f \in later : \A g \in later : f <= g]}

\* C4: within one contiguous run of a source key, a target that occurs at
\* several positions ends up exactly once in the resulting group, with the
\* weight of the last of those positions (1 when weights is absent), and
\* no error is raised.
C4_LastWriteWins ==
    (Ended /\ pc # "panicked" /\ SameLength /\ WeightsFit)
        => /\ Grouped
           /\ \A r \in Runs : \A t \in TgtKeys :
                Cardinality(Occ(r, t)) >= 2
                    => /\ FlushAfter(r) # {}
                       /\ \A f \in FlushAfter(r) :
                            /\ Times(f.data, t) = 1
                            /\ <<t, GivenWeight(LastOcc(r, t))>> \in AsSet(f.data)

\* C5: names of a returned network holds exactly the keys of the grouped map
\* whose deduplicated member count is >= tmin, each once.
C5_FilteringLaw ==
    Built => /\ {names[g] : g \in DOMAIN names} = Kept
             /\ \A g, h \in DOMAIN names : g # h => names[g] # names[h]

\* C5 witness: a network that kept one group and dropped another.
C5_Witness ==
    /\ Built
    /\ Kept # {}
    /\ Kept # DOMAIN res.map
    /\ Len(names) > 0

\* C6: in a returned network every group's range ends within cnct, the
\* ranges of distinct groups are disjoint, and starts[g] is the flattened
\* length accumulated before group g.
C6_SlicesInBoundsDisjoint ==
    Built =>
        /\ \A g \in DOMAIN names : starts[g] + offsets[g] <= Len(cnct)
        /\ \A g, h \in DOMAIN names :
             g # h => \/ starts[g] + offsets[g] <= starts[h]
                      \/ starts[h] + offsets[h] <= starts[g]
        /\ \A g \in DOMAIN names : starts[g] = SumSeq(SubSeq(offsets, 1, g - 1))

\* C6 witness: a network of two groups or more, one of them with two members.
C6_Witness ==
    /\ Built
    /\ Len(names) >= 2
    /\ \E g \in DOMAIN offsets : offsets[g] >= 2

ScenarioA ==
    /\ source = <<"a", "a", "b">>
    /\ target = <<"x", "y", "x">>
    /\ weights = None
    /\ features = <<"x", "y">>
    /\ tmin = 1
ScenarioB ==
    /\ source = <<"a", "a">>
    /\ target = <<"x", "x">>
    /\ weights = Some(<<2, 5>>)
    /\ features = <<"x">>
    /\ tmin = 1

\* The (feature index, weight) pairs an accessor result pairs positionally.
PairedSet(r) == {<<r[1][j], r[2][j]>> : j \in DOMAIN r[1]}

\* What group idx must yield: the grouped-map entry of its name, each target
\* replaced by its index in the lookup.
ExpectedMembers(idx) ==
    {<<name_to_id[p[1]], p[2]>> : p \in AsSet(res.map[names[idx + 1]])}

MembersCorrect(idx, r) ==
    /\ r.ok
    /\ Len(r.val[1]) = offsets[idx + 1]
    /\ Len(r.val[2]) = offsets[idx + 1]
    /\ PairedSet(r.val) = ExpectedMembers(idx)

\* C8: on a returned network, for every idx < get_num_pathways(),
\* get_pathway_features_and_weights(idx) returns two slices of length
\* offsets[idx] whose paired entries are exactly the (lookup index, weight)
\* pairs of the grouped-map entry named get_pathway_name(idx), and
\* get_pathway_features(idx) returns the same targets slice; Scenario A
\* yields {x:1, y:1} for "a", Scenario B {x:5}.
C8_AccessorsReturnGroup ==
    Built =>
        /\ \A idx \in 0..(get_num_pathways - 1) :
             LET r == get_pathway_features_and_weights(idx)
             IN /\ MembersCorrect(idx, r)
                /\ get_pathway_features(idx) = Val(r.val[1])
                /\ (ScenarioA /\ names[idx + 1] = "a")
                      => PairedSet(r.val) = {<<0, 1>>, <<1, 1>>}
                /\ (ScenarioB /\ names[idx + 1] = "a")
                      => PairedSet(r.val) = {<<0, 5>>}
        /\ (ret.op = "features_and_weights" /\ ret.idx < get_num_pathways)
              => MembersCorrect(ret.idx, ret.val)
        /\ (ret.op = "features" /\ ret.idx < get_num_pathways)
              => /\ ret.val.ok
                 /\ ret.val.val = get_pathway_features_and_weights(ret.idx).val[1]

\* C8 witness: Scenario A, and the weighted members of the group stored
\* second have been read.
C8_Witness ==
    /\ Built
    /\ ScenarioA
    /\ ret.op = "features_and_weights"
    /\ ret.idx = 1
    /\ names[2] = "a"
    /\ ret.val.ok

\* C9: with sources.len() # targets.len(), validate_net returns the
\* LengthMismatch error before any grouping work (no triple read, no map
\* entry), and new_from_vec fails on it: no network is ever returned.
C9_LengthMismatchRejected ==
    ~SameLength =>
        /\ pc \in {"entry", "validated", "panicked"}
        /\ pc # "entry" => res = Err("LengthMismatch")
        /\ pc = "panicked" => err = "LengthMismatch"
        /\ i = 0
        /\ DOMAIN map = {}
        /\ DOMAIN current_target_weight = {}
        /\ flushes = <<>>
        /\ names = <<>> /\ starts = <<>> /\ offsets = <<>>
        /\ cnct = <<>> /\ weights_vec = <<>>

\* C9 witness: Scenario E (three sources, two targets) after the call failed.
C9_Witness ==
    /\ Len(source) = 3
    /\ Len(target) = 2
    /\ pc = "panicked"
    /\ err = "LengthMismatch"

\* C10: when a source key occurs in two or more disjoint runs, each run is
\* flushed as its own map entry under that key, and the final map holds for
\* that key exactly the deduplicated pairs of its last run, never a merge.
C10_LastRunOverwrites ==
    (pc = "validated" /\ SameLength /\ WeightsFit)
        => /\ Grouped
           /\ \A k \in {source[j] : j \in Pos} :
                Cardinality(RunsOf(k)) >= 2
                    => /\ \A r \in RunsOf(k) :
                            \E f \in DOMAIN flushes :
                                /\ flushes[f].key = k
                                /\ flushes[f].upto = r[2]
                                /\ AsSet(flushes[f].data) = DedupPairs(r)
                       /\ k \in DOMAIN res.map
                       /\ AsSet(res.map[k]) = DedupPairs(LastRunOf(k))
                       /\ EachOnce(res.map[k])
====
